---- MODULE Spec2Model ----
(***************************************************************************)
(* A model of tacl's Results class (src/tacl/results.py): the match table  *)
(* and the operations that transform it.  A string is a sequence of        *)
(* one-character strings, so that joining, tokenizing, substring tests and *)
(* regular-expression substitution are computed rather than assumed.       *)
(***************************************************************************)
EXTENDS Integers, Sequences, FiniteSets, TLC

VARIABLES matches, prev, call, err

vars == <<matches, prev, call, err>>

(***************************************************************************)
(* Bounds of the model.                                                    *)
(***************************************************************************)
\* Largest number of rows of the table loaded at construction.
MaxRows == 2
\* Largest count of a row of the table loaded at construction.
MaxCount == 2
\* Largest value given for the minimum or maximum of a range prune.
MaxBound == 1

(***************************************************************************)
(* Generic helpers on sequences and sets.                                  *)
(***************************************************************************)
Range(s) == {s[i] : i \in DOMAIN s}

RECURSIVE Flatten(_)
Flatten(ss) == IF ss = <<>> THEN <<>> ELSE Head(ss) \o Flatten(Tail(ss))

RECURSIVE SumOver(_, _)
SumOver(S, f) ==
    IF S = {} THEN 0
    ELSE LET x == CHOOSE y \in S : TRUE IN f[x] + SumOver(S \ {x}, f)

MaxOf(S) == CHOOSE x \in S : \A y \in S : y <= x

RECURSIVE SetToSeq(_)
SetToSeq(S) ==
    IF S = {} THEN <<>>
    ELSE LET x == CHOOSE y \in S : TRUE IN <<x>> \o SetToSeq(S \ {x})

\* The subsequence of s at the indices in I, in their order in s.
Pick(s, I) ==
    LET F[i \in 0..Len(s)] ==
            IF i = 0 THEN <<>>
            ELSE IF i \in I THEN Append(F[i - 1], s[i]) ELSE F[i - 1]
    IN F[Len(s)]

\* Every ordering of the set S as a sequence.
RECURSIVE Orderings(_)
Orderings(S) ==
    IF S = {} THEN {<<>>}
    ELSE UNION {{<<x>> \o o : o \in Orderings(S \ {x})} : x \in S}

(***************************************************************************)
(* Strings: comparison, substring test, substitution.                      *)
(***************************************************************************)
\* Code point order of the characters in use.
CharRank(c) ==
    CASE c = " " -> 0
      [] c = "\"" -> 1
      [] c = "a" -> 2
      [] c = "b" -> 3
      [] c = "c" -> 4
      [] c = "d" -> 5
      [] c = "e" -> 6
      [] c = "s" -> 7

\* Python's < on str.
RECURSIVE StrLess(_, _)
StrLess(s, t) ==
    IF t = <<>> THEN FALSE
    ELSE IF s = <<>> THEN TRUE
    ELSE IF Head(s) = Head(t) THEN StrLess(Tail(s), Tail(t))
    ELSE CharRank(Head(s)) < CharRank(Head(t))

MatchAt(text, pat, i) ==
    /\ i + Len(pat) - 1 <= Len(text)
    /\ \A k \in 1..Len(pat) : text[i + k - 1] = pat[k]

\* Python's `pat in text`.
Contains(text, pat) == \E i \in 1..(Len(text) + 1) : MatchAt(text, pat, i)

\* The placeholder put in place of an aligned n-gram.
Placeholder == <<" ", " ">>

\* SubN counting the matches and leaving the text as it is.
RECURSIVE SubNKeepText(_, _)
SubNKeepText(text, pat) ==
    IF text = <<>> THEN [text |-> <<>>, count |-> 0]
    ELSE IF MatchAt(text, pat, 1)
         THEN LET rest == SubNKeepText(SubSeq(text, Len(pat) + 1, Len(text)), pat)
              IN [text |-> SubSeq(text, 1, Len(pat)) \o rest.text,
                  count |-> rest.count + 1]
         ELSE LET rest == SubNKeepText(Tail(text), pat)
              IN [text |-> <<Head(text)>> \o rest.text, count |-> rest.count]

\* re.subn(re.escape(pat), '  ', text): leftmost non-overlapping matches of
\* the non-empty pat replaced, and their number.
RECURSIVE SubN(_, _)
SubN(text, pat) ==
    IF text = <<>> THEN [text |-> <<>>, count |-> 0]
    ELSE IF MatchAt(text, pat, 1)
         THEN LET rest == SubN(SubSeq(text, Len(pat) + 1, Len(text)), pat)
              IN [text |-> Placeholder \o rest.text, count |-> rest.count + 1]
         ELSE LET rest == SubN(Tail(text), pat)
              IN [text |-> <<Head(text)>> \o rest.text, count |-> rest.count]

(***************************************************************************)
(* Tokenizer: tokens are runs of non-space characters, joined by a space.  *)
(***************************************************************************)
Joiner == <<" ">>

RECURSIVE Join(_)
Join(tokens) ==
    IF tokens = <<>> THEN <<>>
    ELSE IF Len(tokens) = 1 THEN tokens[1]
    ELSE tokens[1] \o Joiner \o Join(Tail(tokens))

RECURSIVE TokenizeFrom(_, _)
TokenizeFrom(s, cur) ==
    IF s = <<>> THEN (IF cur = <<>> THEN <<>> ELSE <<cur>>)
    ELSE IF Head(s) = " "
         THEN (IF cur = <<>> THEN <<>> ELSE <<cur>>) \o TokenizeFrom(Tail(s), <<>>)
         ELSE TokenizeFrom(Tail(s), Append(cur, Head(s)))

Tokenize(s) == TokenizeFrom(s, <<>>)

\* Text._ngrams: the n-grams of one size, joined, one per position.
NgramsOfSize(tokens, n) ==
    [i \in 1..(IF Len(tokens) >= n THEN Len(tokens) - n + 1 ELSE 0) |->
        Join(SubSeq(tokens, i, i + n - 1))]

\* Text.get_ngrams(minimum, maximum), as one list with multiplicity.
GetNgrams(s, minimum, maximum) ==
    LET tokens == Tokenize(s)
        F[n \in (minimum - 1)..maximum] ==
            IF n < minimum THEN <<>> ELSE F[n - 1] \o NgramsOfSize(tokens, n)
    IN IF maximum < minimum THEN <<>> ELSE F[maximum]

Occurrences(list, g) == Cardinality({i \in DOMAIN list : list[i] = g})

\* A string written as its one-character tokens.
Words(chars) == Join([i \in DOMAIN chars |-> <<chars[i]>>])

(***************************************************************************)
(* Corpus and catalogue: two works, one with three witnesses.              *)
(***************************************************************************)
Works == {"W1", "W2"}

\* Catalogue: the label of each work.
Catalogue == [w \in Works |-> IF w = "W1" THEN "A" ELSE "B"]

Labels == {Catalogue[w] : w \in Works}

\* Corpus.get_sigla(work), as a set; the order of the list is the file
\* system's.
GetSigla(work) == IF work = "W1" THEN {"base", "a", "b"} ELSE {"base"}

Witnesses == {<<w, s>> : w \in Works, s \in {"base", "a", "b"}} \cap
             {ws \in Works \X {"base", "a", "b"} : ws[2] \in GetSigla(ws[1])}

\* Corpus.get_witness(work, siglum).get_token_content()
GetTokenContent(work, siglum) ==
    CASE work = "W1" /\ siglum = "base" -> Words(<<"a", "b", "c", "d">>)
      [] work = "W1" /\ siglum = "a"    -> Words(<<"b", "c", "d", "c">>)
      [] work = "W1" /\ siglum = "b"    -> Words(<<"a", "b", "c", "b", "c", "d">>)
      [] work = "W2" /\ siglum = "base" -> Words(<<"a", "b", "c", "d", "a", "b", "c", "d">>)

\* Python's order on the work names, sigla and labels in use.
AtomRank(x) ==
    CASE x = "A" -> 1
      [] x = "B" -> 2
      [] x = "W1" -> 3
      [] x = "W2" -> 4
      [] x = "a" -> 5
      [] x = "b" -> 6
      [] x = "base" -> 7

(***************************************************************************)
(* Match rows and the tables the model starts from.                        *)
(***************************************************************************)
Row(ngram, size, work, siglum, label, count) ==
    [ngram |-> ngram, size |-> size, work |-> work, siglum |-> siglum,
     label |-> label, count |-> count]

Key(r) == <<r.ngram, r.work, r.siglum>>

\* A value for "minimum" or "maximum" left unset (None).
Unset == -1

\* Python's truth value of a bound: None and 0 are both false.
Truthy(x) == x # Unset /\ x # 0

KeysUnique(t) ==
    \A i, j \in DOMAIN t : Key(t[i]) = Key(t[j]) => i = j

\* The rows a table can be loaded with: an n-gram with its size, a witness
\* with the label the catalogue gives its work, and a count.
RowsOver(ngrams, witnesses, counts) ==
    {Row(g, Len(Tokenize(g)), ws[1], ws[2], Catalogue[ws[1]], c) :
        g \in ngrams, ws \in witnesses, c \in counts}

\* The tables of at most MaxRows of these rows, (ngram, work, siglum)
\* unique, in any order.
TablesOver(rows) ==
    {t \in UNION {[1..n -> rows] : n \in 0..MaxRows} : KeysUnique(t)}

\* The n-grams of the tables loaded at construction.
NgramPool == {Words(<<"a", "b", "c">>), Words(<<"b", "c", "d">>),
              Words(<<"b", "c">>)}

\* The tables the single operations are applied to.
InitTables ==
    TablesOver(RowsOver(NgramPool,
                        {<<"W1", "base">>, <<"W1", "a">>, <<"W2", "base">>},
                        0..MaxCount))

NgramsOf(t) == {t[i].ngram : i \in DOMAIN t}

LabelsOf(t) == {t[i].label : i \in DOMAIN t}

Filter(t, Keep(_)) == SelectSeq(t, Keep)

(***************************************************************************)
(* Reciprocal remove.                                                      *)
(***************************************************************************)
\* ReciprocalRemoveOf with the labels counted among the positive rows only.
ReciprocalRemoveOfAttested(t) ==
    LET filtered == SelectSeq(t, LAMBDA r : r.count > 0)
        number_labels == Cardinality(LabelsOf(filtered))
        GroupLabels(g) ==
            {filtered[i].label : i \in {j \in DOMAIN filtered : filtered[j].ngram = g}}
    IN SelectSeq(filtered,
                 LAMBDA r : Cardinality(GroupLabels(r.ngram)) = number_labels)

\* ReciprocalRemoveOf with the test of the filter inverted.
ReciprocalRemoveOfInverted(t) ==
    LET number_labels == Cardinality(LabelsOf(t))
        filtered == SelectSeq(t, LAMBDA r : r.count > 0)
        GroupLabels(g) ==
            {filtered[i].label : i \in {j \in DOMAIN filtered : filtered[j].ngram = g}}
    IN SelectSeq(filtered,
                 LAMBDA r : Cardinality(GroupLabels(r.ngram)) # number_labels)

ReciprocalRemoveOf(t) ==
    LET number_labels == Cardinality(LabelsOf(t))
        filtered == SelectSeq(t, LAMBDA r : r.count > 0)
        GroupLabels(g) ==
            {filtered[i].label : i \in {j \in DOMAIN filtered : filtered[j].ngram = g}}
    IN SelectSeq(filtered,
                 LAMBDA r : Cardinality(GroupLabels(r.ngram)) = number_labels)

(***************************************************************************)
(* The prune family, remove label and sort.                                *)
(***************************************************************************)
PruneByNgramOf(t, ngrams) == SelectSeq(t, LAMBDA r : r.ngram \notin ngrams)

\* calculate_total: the sum over the works of the largest count among a
\* work's witnesses.
TotalCount(t, g) ==
    LET rows == {i \in DOMAIN t : t[i].ngram = g}
        works == {t[i].work : i \in rows}
        work_max == [w \in works |-> MaxOf({t[i].count : i \in {j \in rows : t[j].work = w}})]
    IN SumOver(works, work_max)

PruneByNgramCountOf(t, minimum, maximum) ==
    LET t1 == IF Truthy(minimum)
              THEN SelectSeq(t, LAMBDA r : TotalCount(t, r.ngram) >= minimum)
              ELSE t
    IN IF Truthy(maximum)
       THEN SelectSeq(t1, LAMBDA r : TotalCount(t, r.ngram) <= maximum)
       ELSE t1

PruneByNgramCountPerWorkOf(t, minimum, maximum) ==
    IF Truthy(minimum) /\ Truthy(maximum)
    THEN LET keep_ngrams == {t[i].ngram : i \in {j \in DOMAIN t :
                                 t[j].count >= minimum /\ t[j].count <= maximum}}
         IN SelectSeq(t, LAMBDA r : r.ngram \in keep_ngrams)
    ELSE IF Truthy(minimum)
    THEN LET keep_ngrams == {t[i].ngram : i \in {j \in DOMAIN t : t[j].count >= minimum}}
         IN SelectSeq(t, LAMBDA r : r.ngram \in keep_ngrams)
    ELSE IF Truthy(maximum)
    THEN LET keep_ngrams == {t[i].ngram : i \in {j \in DOMAIN t : t[j].count <= maximum}}
         IN SelectSeq(t, LAMBDA r : r.ngram \in keep_ngrams)
    ELSE t

PruneByNgramSizeOf(t, minimum, maximum) ==
    LET t1 == IF Truthy(minimum) THEN SelectSeq(t, LAMBDA r : r.size >= minimum) ELSE t
    IN IF Truthy(maximum) THEN SelectSeq(t1, LAMBDA r : r.size <= maximum) ELSE t1

\* The number of distinct works with a positive count of the n-gram.
WorkCount(t, g) ==
    Cardinality({t[i].work : i \in {j \in DOMAIN t : t[j].ngram = g /\ t[j].count > 0}})

PruneByWorkCountOf(t, minimum, maximum) ==
    LET filtered == SelectSeq(t, LAMBDA r : r.count > 0)
        counts0 == NgramsOf(filtered)
        counts1 == IF Truthy(minimum)
                   THEN {g \in counts0 : WorkCount(t, g) >= minimum} ELSE counts0
        counts == IF Truthy(maximum)
                  THEN {g \in counts1 : WorkCount(t, g) <= maximum} ELSE counts1
    IN SelectSeq(t, LAMBDA r : r.ngram \in counts)

RemoveLabelOf(t, label) == SelectSeq(t, LAMBDA r : r.label # label)

\* RowBefore with the count ascending.
RowBeforeCountAscending(r, s) ==
    IF r.size # s.size THEN r.size > s.size
    ELSE IF r.ngram # s.ngram THEN StrLess(r.ngram, s.ngram)
    ELSE IF r.count # s.count THEN r.count < s.count
    ELSE IF r.label # s.label THEN AtomRank(r.label) < AtomRank(s.label)
    ELSE IF r.work # s.work THEN AtomRank(r.work) < AtomRank(s.work)
    ELSE IF r.siglum # s.siglum THEN AtomRank(r.siglum) < AtomRank(s.siglum)
    ELSE FALSE

\* The order of Results.sort: size descending, n-gram, count descending,
\* label, work, siglum.
RowBefore(r, s) ==
    IF r.size # s.size THEN r.size > s.size
    ELSE IF r.ngram # s.ngram THEN StrLess(r.ngram, s.ngram)
    ELSE IF r.count # s.count THEN r.count > s.count
    ELSE IF r.label # s.label THEN AtomRank(r.label) < AtomRank(s.label)
    ELSE IF r.work # s.work THEN AtomRank(r.work) < AtomRank(s.work)
    ELSE IF r.siglum # s.siglum THEN AtomRank(r.siglum) < AtomRank(s.siglum)
    ELSE FALSE

SortOf(t) == SortSeq(t, RowBefore)

(***************************************************************************)
(* Collapse witnesses.                                                     *)
(***************************************************************************)
\* The characters of the sigla in use; "a b" is a siglum with a space.
SiglumText(s) ==
    CASE s = "base" -> <<"b", "a", "s", "e">>
      [] s = "a" -> <<"a">>
      [] s = "b" -> <<"b">>
      [] s = "a b" -> <<"a", " ", "b">>

\* ' '.join(list)
RECURSIVE SpaceJoin(_)
SpaceJoin(list) ==
    IF list = <<>> THEN <<>>
    ELSE IF Len(list) = 1 THEN list[1]
    ELSE list[1] \o <<" ">> \o SpaceJoin(Tail(list))

\* QuoteSiglum leaving every siglum as it is.
QuoteSiglumNever(siglum) == siglum

\* merge_sigla: a siglum with a space is put in double quotes.
QuoteSiglum(siglum) ==
    IF Contains(siglum, <<" ">>) THEN <<"\"">> \o siglum \o <<"\"">> ELSE siglum

\* The columns collapse_witnesses groups by.
CollapseGroup(r) == <<r.work, r.ngram, r.count>>

\* A table whose rows have the sigla field in place of the siglum field.
Collapsed(t) == \E i \in DOMAIN t : "siglum" \notin DOMAIN t[i]

\* Results.collapse_witnesses: the first row of each group, in the order
\* the groups appear, with the sorted sigla of the group.
CollapseWitnessesOf(t) ==
    LET firsts == Pick(t, {i \in DOMAIN t :
                       \A j \in 1..(i - 1) : CollapseGroup(t[j]) # CollapseGroup(t[i])})
        Merged(r) ==
            LET df == SelectSeq(t, LAMBDA x : CollapseGroup(x) = CollapseGroup(r))
                sigla == SortSeq([k \in DOMAIN df |-> QuoteSiglum(SiglumText(df[k].siglum))],
                                 StrLess)
            IN [ngram |-> r.ngram, size |-> r.size, work |-> r.work,
                label |-> r.label, count |-> r.count, sigla |-> SpaceJoin(sigla)]
    IN [k \in DOMAIN firsts |-> Merged(firsts[k])]

(***************************************************************************)
(* Reduce.                                                                 *)
(***************************************************************************)
\* GenerateSubstrings stopping one size short.
GenerateSubstringsShort(ngram, size) == GetNgrams(ngram, 1, size - 2)

\* Results._generate_substrings: every proper sub-n-gram, with multiplicity.
GenerateSubstrings(ngram, size) == GetNgrams(ngram, 1, size - 1)

\* ReduceApplies for any count.
ReduceAppliesAlways(count) == TRUE

\* The guard of the reduction of one n-gram.
ReduceApplies(count) == count > 0

\* KeepReduced with every row written back.
KeepReducedAlways(count) == TRUE

\* The test a reduced row passes to be written back.
KeepReduced(count) == count > 0

\* Results._reduce_by_ngram on the data of one witness.
ReduceByNgram(data, ngram) ==
    LET count == data[ngram].count
        substrings == GenerateSubstrings(ngram, data[ngram].size)
    IN [g \in DOMAIN data |->
          [data[g] EXCEPT !.count = @ - count * Occurrences(substrings, g)]]

RECURSIVE ReduceLoop(_, _)
ReduceLoop(data, ngrams) ==
    IF ngrams = <<>> THEN data
    ELSE LET ngram == Head(ngrams)
         IN ReduceLoop(IF ReduceApplies(data[ngram].count)
                       THEN ReduceByNgram(data, ngram) ELSE data,
                       Tail(ngrams))

ReduceOf(t) ==
    LET WitnessOf(i) == <<t[i].work, t[i].siglum>>
        \* dict insertion: the position of the first row with a key, the
        \* values of the last.
        FirstOfKey(i) == \A j \in 1..(i - 1) : Key(t[j]) # Key(t[i])
        LastOfKey(i) == CHOOSE j \in DOMAIN t :
                            /\ Key(t[j]) = Key(t[i])
                            /\ \A k \in DOMAIN t : Key(t[k]) = Key(t[i]) => k <= j
        FirstOfWitness(i) == CHOOSE j \in DOMAIN t :
                            /\ WitnessOf(j) = WitnessOf(i)
                            /\ \A k \in DOMAIN t : WitnessOf(k) = WitnessOf(i) => j <= k
        LabelOfWork(w) == t[CHOOSE j \in DOMAIN t :
                            /\ t[j].work = w
                            /\ \A k \in DOMAIN t : t[k].work = w => k <= j].label
        firsts == Pick([i \in DOMAIN t |-> i], {i \in DOMAIN t : FirstOfKey(i)})
        WitnessData(ws) ==
            LET idx == {i \in DOMAIN t : WitnessOf(i) = ws}
            IN [g \in {t[i].ngram : i \in idx} |->
                  LET l == CHOOSE i \in idx : t[i].ngram = g /\ LastOfKey(i) = i
                  IN [count |-> t[l].count, size |-> t[l].size]]
        Order(ws) ==
            LET keys == SelectSeq(firsts, LAMBDA i : WitnessOf(i) = ws)
                sorted == SortSeq(keys, LAMBDA i, j :
                              \/ t[LastOfKey(i)].size > t[LastOfKey(j)].size
                              \/ /\ t[LastOfKey(i)].size = t[LastOfKey(j)].size
                                 /\ i < j)
            IN [k \in DOMAIN sorted |-> t[sorted[k]].ngram]
        reduced == [ws \in {WitnessOf(i) : i \in DOMAIN t} |->
                       ReduceLoop(WitnessData(ws), Order(ws))]
        out == SortSeq(firsts, LAMBDA i, j :
                   \/ FirstOfWitness(i) < FirstOfWitness(j)
                   \/ FirstOfWitness(i) = FirstOfWitness(j) /\ i < j)
        rows == [k \in DOMAIN out |->
                   LET i == out[k]
                       d == reduced[WitnessOf(i)][t[i].ngram]
                   IN Row(t[i].ngram, d.size, t[i].work, t[i].siglum,
                          LabelOfWork(t[i].work), d.count)]
    IN SelectSeq(rows, LAMBDA r : KeepReduced(r.count))

(***************************************************************************)
(* Zero fill.                                                              *)
(***************************************************************************)
\* The lists Corpus.get_sigla can return for the works: one order of each
\* work's sigla.
SiglaOrders ==
    {f \in [Works -> UNION {Orderings(GetSigla(w)) : w \in Works}] :
        \A w \in Works : Range(f[w]) = GetSigla(w) /\ Len(f[w]) = Cardinality(GetSigla(w))}

\* data[label][work] exists for the row.
InCatalogue(r) == r.work \in DOMAIN Catalogue /\ Catalogue[r.work] = r.label

\* ZeroRowsOfGroup without the test for an existing row of the siglum.
ZeroRowsOfGroupEverySiglum(t, r, sigla) ==
    [k \in 1..Len(sigla) |->
        Row(r.ngram, r.size, r.work, sigla[Len(sigla)], r.label, 0)]

\* The rows one group appends to zero_rows: row_data is one dictionary,
\* appended once per missing siglum and read after the loop.
ZeroRowsOfGroup(t, r, sigla) ==
    LET group == SelectSeq(t, LAMBDA x : /\ x.label = r.label /\ x.ngram = r.ngram
                                          /\ x.size = r.size /\ x.work = r.work)
        missing == SelectSeq(sigla, LAMBDA s :
                       \A i \in DOMAIN group : group[i].siglum # s)
    IN [k \in 1..Len(missing) |->
          Row(r.ngram, r.size, r.work, missing[Len(missing)], r.label, 0)]

GroupKey(r) == <<r.label, r.ngram, r.size, r.work>>

ZeroFillOf(t, order) ==
    LET firsts == Pick(t, {i \in DOMAIN t :
                       \A j \in 1..(i - 1) : GroupKey(t[j]) # GroupKey(t[i])})
    IN t \o Flatten([k \in DOMAIN firsts |->
                       ZeroRowsOfGroup(t, firsts[k], order[firsts[k].work])])

(***************************************************************************)
(* Extend.                                                                 *)
(***************************************************************************)
MaxSize(t) == MaxOf({t[i].size : i \in DOMAIN t})

\* Results._is_intersect_results: the first row's n-gram has a row under
\* another label.
IsIntersectResults(t) ==
    \E i \in DOMAIN t : t[i].ngram = t[1].ngram /\ t[i].label # t[1].label

\* The extensions of base by one token: the last token of each n-gram that
\* starts with base's last `overlap` tokens, kept when the joined extension
\* occurs in the text.
Extensions(base, ngrams, overlap, text) ==
    LET base_overlap == SubSeq(base, Len(base) - overlap + 1, Len(base))
        index == {n \in ngrams : SubSeq(n, 1, Len(n) - 1) = base_overlap}
    IN {e \in {Append(base, n[Len(n)]) : n \in index} : Contains(text, Join(e))}

\* The while loop of _generate_extended_ngrams: the working n-grams of one
\* round and the extended n-grams so far.
RECURSIVE ExtendLoop(_, _, _, _, _)
ExtendLoop(working, extended, ngrams, overlap, text) ==
    IF working = {} THEN extended
    ELSE LET new_working == UNION {Extensions(b, ngrams, overlap, text) : b \in working}
             removals == {b \in working : Extensions(b, ngrams, overlap, text) # {}}
         IN ExtendLoop(new_working, (extended \cup new_working) \ removals,
                       ngrams, overlap, text)

\* sorted(extended_ngrams, key=len, reverse=True) of a set: longest first,
\* n-grams of one length in the set's iteration order, which is any order.
LongestFirst(extended) ==
    {o \in Orderings(extended) :
        \A i, j \in DOMAIN o : i < j => Len(o[i]) >= Len(o[j])}

\* The alignment loop: each n-gram in turn is replaced in the text by the
\* placeholder and listed once per replacement.
RECURSIVE Align(_, _)
Align(text, extended_ngrams) ==
    IF extended_ngrams = <<>> THEN <<>>
    ELSE LET ngram == Head(extended_ngrams)
             r == SubN(text, ngram)
         IN [k \in 1..r.count |-> ngram] \o Align(r.text, Tail(extended_ngrams))

\* The set extended_ngrams at the end of the while loop: the n-grams of the
\* witness's rows, extended as far as the text allows.
ExtendedNgramsOf(top, work, siglum, label, highest_n) ==
    LET witness_matches == SelectSeq(top, LAMBDA r :
                               r.work = work /\ r.siglum = siglum /\ r.label = label)
        text == GetTokenContent(work, siglum)
        ngrams == {Tokenize(witness_matches[i].ngram) : i \in DOMAIN witness_matches}
    IN ExtendLoop(ngrams, ngrams, ngrams, highest_n - 1, text)

\* Results._generate_extended_ngrams: the lists it can return.
GenerateExtendedNgrams(top, work, siglum, label, highest_n) ==
    LET text == GetTokenContent(work, siglum)
        extended == ExtendedNgramsOf(top, work, siglum, label, highest_n)
    IN {Align(text, [k \in DOMAIN o |-> Join(o[k])]) : o \in LongestFirst(extended)}

\* FirstExtendedSize starting at the size the table already has.
FirstExtendedSizeSame(highest_n) == highest_n

\* The smallest size of the n-grams taken from an extended n-gram.
FirstExtendedSize(highest_n) == highest_n + 1

\* Results._generate_extended_matches: the n-grams within each extended
\* n-gram, counts summed per n-gram, in the order of the groupby.
GenerateExtendedMatches(extended_ngrams, highest_n, work, siglum, label) ==
    LET rows_list == Flatten([k \in DOMAIN extended_ngrams |->
                        GetNgrams(extended_ngrams[k], FirstExtendedSize(highest_n),
                                  Len(Tokenize(extended_ngrams[k])))])
        sorted == SortSeq(SetToSeq(Range(rows_list)), StrLess)
    IN [k \in DOMAIN sorted |->
          Row(sorted[k], Len(Tokenize(sorted[k])), work, siglum, label,
              Occurrences(rows_list, sorted[k]))]

\* The extended matches of the witnesses in turn: every table the loop of
\* Results.extend can build.
RECURSIVE ExtendedMatches(_, _, _)
ExtendedMatches(top, groups, highest_n) ==
    IF groups = <<>> THEN {<<>>}
    ELSE LET g == Head(groups)
             here == {GenerateExtendedMatches(e, highest_n, g.work, g.siglum, g.label) :
                         e \in GenerateExtendedNgrams(top, g.work, g.siglum, g.label,
                                                      highest_n)}
         IN {h \o rest : h \in here, rest \in ExtendedMatches(top, Tail(groups), highest_n)}

WitnessGroup(r) == [work |-> r.work, siglum |-> r.siglum, label |-> r.label]

\* Results.extend: the tables it can leave, for a non-empty table whose
\* witnesses the corpus has.
ExtendOf(t) ==
    LET highest_n == MaxSize(t)
        is_intersect == IsIntersectResults(t)
        top == SelectSeq(t, LAMBDA r : r.size = highest_n)
        groups == Pick([i \in DOMAIN top |-> WitnessGroup(top[i])],
                       {i \in DOMAIN top : \A j \in 1..(i - 1) :
                            WitnessGroup(top[j]) # WitnessGroup(top[i])})
    IN IF highest_n = 1 THEN {t}
       ELSE {t \o (IF is_intersect THEN ReciprocalRemoveOf(e) ELSE e) :
                e \in ExtendedMatches(top, groups, highest_n)}

\* corpus.get_witness fails for a witness the corpus lacks.
MissingWitness(t) ==
    \E i \in DOMAIN t : t[i].size = MaxSize(t) /\ <<t[i].work, t[i].siglum>> \notin Witnesses

\* ExtendFailedOf with the rows extended before the failure merged in.
ExtendFailedOfPartial(t) ==
    LET highest_n == MaxSize(t)
        top == SelectSeq(t, LAMBDA r : r.size = highest_n)
        groups == Pick([i \in DOMAIN top |-> WitnessGroup(top[i])],
                       {i \in DOMAIN top : \A j \in 1..(i - 1) :
                            WitnessGroup(top[j]) # WitnessGroup(top[i])})
        first_missing == CHOOSE k \in DOMAIN groups :
                            /\ <<groups[k].work, groups[k].siglum>> \notin Witnesses
                            /\ \A j \in 1..(k - 1) :
                                  <<groups[j].work, groups[j].siglum>> \in Witnesses
    IN {t \o e : e \in ExtendedMatches(top, SubSeq(groups, 1, first_missing - 1),
                                         highest_n)}

\* The tables Results.extend can leave when corpus.get_witness fails: the
\* exception leaves the loop before the table is assigned.
ExtendFailedOf(t) == {t}

(***************************************************************************)
(* The state machine: the table, the table before the call, the call and   *)
(* whether it raised.  A call is made on a table at rest and its outcome   *)
(* stays visible until the caller moves on.                                *)
(***************************************************************************)
Bounds == {Unset} \cup 0..MaxBound

Call(op, minimum, maximum) == [op |-> op, minimum |-> minimum, maximum |-> maximum]

NoCall == Call("none", Unset, Unset)

AtRest == call = NoCall

\* The tables the sequences of operations start from: n-grams found in
\* one witness of each work, in the order of Results.sort.
StoreTables ==
    {SortOf(t) : t \in TablesOver(RowsOver(
        {Words(<<"a", "b", "c">>), Words(<<"b", "c", "d">>)},
        {<<"W1", "base">>, <<"W2", "base">>},
        1..MaxCount))}

\* The state after construction from one of `tables`.
InitWith(tables) ==
    /\ matches \in tables
    /\ prev = matches
    /\ call = NoCall
    /\ err = FALSE

Init == InitWith(StoreTables)

\* The caller takes the outcome of the call and is ready for the next one.
Return ==
    /\ ~AtRest
    /\ matches' = matches
    /\ prev' = matches
    /\ call' = NoCall
    /\ err' = FALSE

\* Results.extend
Extend ==
    /\ AtRest
    /\ prev' = matches
    /\ call' = Call("extend", Unset, Unset)
    /\ err' = (matches # <<>> /\ MaxSize(matches) # 1 /\ MissingWitness(matches))
    /\ \E r \in (IF matches = <<>> THEN {matches}
                ELSE IF err' THEN ExtendFailedOf(matches)
                ELSE ExtendOf(matches)) :
          matches' = r

\* Results.reduce
Reduce ==
    /\ AtRest
    /\ prev' = matches
    /\ call' = Call("reduce", Unset, Unset)
    /\ err' = FALSE
    /\ matches' = ReduceOf(matches)

\* Results.reciprocal_remove
ReciprocalRemove ==
    /\ AtRest
    /\ prev' = matches
    /\ call' = Call("reciprocal_remove", Unset, Unset)
    /\ err' = FALSE
    /\ matches' = ReciprocalRemoveOf(matches)

\* Results.zero_fill
ZeroFill ==
    /\ AtRest
    /\ prev' = matches
    /\ call' = Call("zero_fill", Unset, Unset)
    /\ err' = (\E i \in DOMAIN matches : ~InCatalogue(matches[i]))
    /\ \E order \in SiglaOrders :
          matches' = IF err' THEN matches ELSE ZeroFillOf(matches, order)

\* Results.prune_by_ngram
PruneByNgram ==
    /\ AtRest
    /\ prev' = matches
    /\ call' = Call("prune_by_ngram", Unset, Unset)
    /\ err' = FALSE
    /\ \E g \in NgramPool : matches' = PruneByNgramOf(matches, {g})

\* Results.prune_by_ngram_count
PruneByNgramCount ==
    \E minimum, maximum \in Bounds :
        /\ AtRest
    /\ prev' = matches
        /\ call' = Call("prune_by_ngram_count", minimum, maximum)
        /\ err' = FALSE
        /\ matches' = PruneByNgramCountOf(matches, minimum, maximum)

\* Results.prune_by_ngram_count_per_work
PruneByNgramCountPerWork ==
    \E minimum, maximum \in Bounds :
        /\ AtRest
    /\ prev' = matches
        /\ call' = Call("prune_by_ngram_count_per_work", minimum, maximum)
        /\ err' = FALSE
        /\ matches' = PruneByNgramCountPerWorkOf(matches, minimum, maximum)

\* Results.prune_by_ngram_size
PruneByNgramSize ==
    \E minimum, maximum \in Bounds :
        /\ AtRest
    /\ prev' = matches
        /\ call' = Call("prune_by_ngram_size", minimum, maximum)
        /\ err' = FALSE
        /\ matches' = PruneByNgramSizeOf(matches, minimum, maximum)

\* Results.prune_by_work_count
PruneByWorkCount ==
    \E minimum, maximum \in Bounds :
        /\ AtRest
    /\ prev' = matches
        /\ call' = Call("prune_by_work_count", minimum, maximum)
        /\ err' = FALSE
        /\ matches' = PruneByWorkCountOf(matches, minimum, maximum)

\* Results.remove_label: value_counts()[label] fails for a label without
\* rows.
RemoveLabel ==
    \E label \in Labels :
        /\ AtRest
    /\ prev' = matches
        /\ call' = Call("remove_label", Unset, Unset)
        /\ err' = (label \notin LabelsOf(matches))
        /\ matches' = IF err' THEN matches ELSE RemoveLabelOf(matches, label)

\* Results.sort
Sort ==
    /\ AtRest
    /\ prev' = matches
    /\ call' = Call("sort", Unset, Unset)
    /\ err' = FALSE
    /\ matches' = SortOf(matches)

\* Results.collapse_witnesses.  On a table without rows the frame that
\* groupby().apply returns has the input's columns or none, by the version
\* of pandas, and the deletion of the siglum column fails in the second
\* case; a table collapsed before has no siglum column to read.
CollapseWitnesses ==
    /\ AtRest
    /\ prev' = matches
    /\ call' = Call("collapse_witnesses", Unset, Unset)
    /\ IF matches = <<>>
       THEN err' \in BOOLEAN /\ matches' = matches
       ELSE IF Collapsed(matches)
       THEN err' = TRUE /\ matches' = matches
       ELSE err' = FALSE /\ matches' = CollapseWitnessesOf(matches)

Next ==
    \/ Extend
    \/ Reduce
    \/ ReciprocalRemove
    \/ ZeroFill
    \/ PruneByNgram
    \/ PruneByNgramCount
    \/ PruneByNgramCountPerWork
    \/ PruneByNgramSize
    \/ PruneByWorkCount
    \/ RemoveLabel
    \/ Sort
    \/ Return

Spec == Init /\ [][Next]_vars

(***************************************************************************)
(* Specifications of the single operations, applied to any loaded table.   *)
(***************************************************************************)
InitOperation == InitWith(InitTables)

NextReciprocalRemove ==
    \/ ReciprocalRemove
    \/ Return

SpecReciprocalRemove == InitOperation /\ [][NextReciprocalRemove]_vars

NextZeroFill ==
    \/ ZeroFill
    \/ Return

SpecZeroFill == InitOperation /\ [][NextZeroFill]_vars

NextExtendReduce ==
    \/ Extend
    \/ Reduce
    \/ Return

\* Tables of the trigrams on one witness of each work: each of the four
\* rows absent or with a count, in the order work, n-gram.
TrigramTables ==
    LET keys == <<
            <<Words(<<"a", "b", "c">>), "W1">>, <<Words(<<"b", "c", "d">>), "W1">>,
            <<Words(<<"a", "b", "c">>), "W2">>, <<Words(<<"b", "c", "d">>), "W2">> >>
    IN {Pick([i \in DOMAIN keys |->
                Row(keys[i][1], 3, keys[i][2], "base", Catalogue[keys[i][2]], f[i])],
             {i \in DOMAIN keys : f[i] # Unset}) :
           f \in [DOMAIN keys -> {Unset} \cup 0..MaxCount]}

SpecExtendReduce ==
    InitWith(InitTables \cup TrigramTables) /\ [][NextExtendReduce]_vars

NextPrune ==
    \/ PruneByNgramCount
    \/ PruneByNgramCountPerWork
    \/ PruneByNgramSize
    \/ PruneByWorkCount
    \/ Return

SpecPrune == InitOperation /\ [][NextPrune]_vars

NextCollapseWitnesses ==
    \/ CollapseWitnesses
    \/ Return

\* Scenario D: the sigla "a" and "b" of one work with the count 5.
ScenarioD ==
    <<Row(Words(<<"a", "b", "c">>), 3, "W1", "a", "A", 5),
      Row(Words(<<"a", "b", "c">>), 3, "W1", "b", "A", 5)>>

\* The tables collapse_witnesses is applied to: the sigla of the first work
\* include one with a space.
CollapseTables ==
    LET rows == RowsOver({Words(<<"a", "b", "c">>), Words(<<"b", "c">>)},
                         {<<"W1", "a">>, <<"W1", "b">>, <<"W1", "a b">>, <<"W2", "base">>},
                         1..MaxCount)
    IN {t \in UNION {[1..n -> rows] : n \in 0..(MaxRows + 1)} : KeysUnique(t)}
       \cup {ScenarioD}

SpecCollapseWitnesses == InitWith(CollapseTables) /\ [][NextCollapseWitnesses]_vars

NextSort ==
    \/ Sort
    \/ Return

\* Tables of one more row than InitTables has, of n-grams of two sizes, in
\* any order of the rows.
WideTables ==
    LET rows == RowsOver({Words(<<"a", "b", "c">>), Words(<<"b", "c">>)},
                         {<<"W1", "base">>, <<"W1", "a">>, <<"W2", "base">>},
                         0..MaxCount)
    IN {t \in UNION {[1..n -> rows] : n \in 0..(MaxRows + 1)} : KeysUnique(t)}

SpecSort == InitWith(WideTables) /\ [][NextSort]_vars

\* Reciprocal remove, called again and again on the wider tables.
SpecReciprocalRemoveTwice == InitWith(WideTables) /\ [][NextReciprocalRemove]_vars

NextExtend ==
    \/ Extend
    \/ Return

\* Tables with rows of a witness the corpus lacks, and with unigrams.
MissingWitnessTables ==
    LET rows == RowsOver({Words(<<"a", "b", "c">>), Words(<<"b", "c", "d">>), <<"c">>},
                         {<<"W1", "base">>, <<"W2", "a">>},
                         1..MaxCount)
    IN {t \in UNION {[1..n -> rows] : n \in 0..(MaxRows + 1)} : KeysUnique(t)}

SpecExtendMissingWitness == InitWith(MissingWitnessTables) /\ [][NextExtend]_vars

\* Tables whose rows carry any label, the catalogue's for the work or not.
MismatchTables ==
    LET rows == {Row(g, Len(Tokenize(g)), w, "base", l, c) :
                    g \in {Words(<<"a", "b", "c">>), Words(<<"b", "c">>)},
                    w \in Works, l \in Labels \cup {"C"}, c \in 0..MaxCount}
    IN TablesOver(rows)

SpecZeroFillMismatch == InitWith(MismatchTables) /\ [][NextZeroFill]_vars

NextReduce ==
    \/ Reduce
    \/ Return

\* Tables of a unigram, a bigram and a trigram that holds the unigram
\* twice, on two witnesses of one work: each row absent or with a count
\* up to 2 * MaxCount + 1, the smaller n-grams first.
ChainTables ==
    LET keys == <<
            <<<<"c">>, "base">>, <<Words(<<"b", "c">>), "base">>,
            <<Words(<<"c", "b", "c">>), "base">>, <<Words(<<"c", "b", "c">>), "a">> >>
    IN {Pick([i \in DOMAIN keys |->
                Row(keys[i][1], Len(Tokenize(keys[i][1])), "W1", keys[i][2],
                    Catalogue["W1"], f[i])],
             {i \in DOMAIN keys : f[i] # Unset}) :
           f \in [DOMAIN keys -> {Unset} \cup 0..(2 * MaxCount + 1)]}

SpecReduceChain == InitWith(ChainTables) /\ [][NextReduce]_vars

\* Tables of the trigrams on a witness of each work that holds their
\* four-gram and on a witness that holds the trigrams apart: each of the
\* six rows absent or with a count.
IntersectTables ==
    LET keys == <<
            <<Words(<<"a", "b", "c">>), "W1", "base">>,
            <<Words(<<"b", "c", "d">>), "W1", "base">>,
            <<Words(<<"a", "b", "c">>), "W1", "b">>,
            <<Words(<<"b", "c", "d">>), "W1", "b">>,
            <<Words(<<"a", "b", "c">>), "W2", "base">>,
            <<Words(<<"b", "c", "d">>), "W2", "base">> >>
    IN {Pick([i \in DOMAIN keys |->
                Row(keys[i][1], 3, keys[i][2], keys[i][3], Catalogue[keys[i][2]], f[i])],
             {i \in DOMAIN keys : f[i] # Unset}) :
           f \in [DOMAIN keys -> {Unset} \cup 0..MaxCount]}

SpecExtendIntersect == InitWith(IntersectTables) /\ [][NextExtend]_vars

\* Tables of bigrams on a witness that holds "b c" twice, once within
\* "a b c", and on a witness that holds "a b c d" twice: each of the six
\* rows absent or with a count.
AlignTables ==
    LET keys == <<
            <<Words(<<"a", "b">>), "W1", "b">>,
            <<Words(<<"b", "c">>), "W1", "b">>,
            <<Words(<<"c", "d">>), "W1", "b">>,
            <<Words(<<"a", "b">>), "W2", "base">>,
            <<Words(<<"b", "c">>), "W2", "base">>,
            <<Words(<<"c", "d">>), "W2", "base">> >>
    IN {Pick([i \in DOMAIN keys |->
                Row(keys[i][1], 2, keys[i][2], keys[i][3], Catalogue[keys[i][2]], f[i])],
             {i \in DOMAIN keys : f[i] # Unset}) :
           f \in [DOMAIN keys -> {Unset} \cup 0..MaxCount]}

SpecExtendAlign == InitWith(AlignTables) /\ [][NextExtend]_vars

(***************************************************************************)
(* Properties.  A state with call.op = "x" shows the table before the call *)
(* (prev) and the table the call left (matches).                           *)
(***************************************************************************)
\* The labels with a positive-count row of the n-gram.
AttestedLabels(t, g) ==
    {t[i].label : i \in {j \in DOMAIN t : t[j].ngram = g /\ t[j].count > 0}}

\* Two tables with the same rows the same number of times.
SameRows(s, t) ==
    /\ Len(s) = Len(t)
    /\ \A r \in Range(s) \cup Range(t) : Occurrences(s, r) = Occurrences(t, r)

\* C1: reciprocal remove retains an n-gram exactly when the labels with a
\* positive-count row of it are all the labels of the table, zero-count rows
\* counting for the table's labels; for a dropped n-gram they are a strict
\* subset.
C1_ReciprocalRemoveCorrect ==
    call.op = "reciprocal_remove" =>
        \A g \in NgramsOf(prev) :
            /\ g \in NgramsOf(matches) <=> AttestedLabels(prev, g) = LabelsOf(prev)
            /\ g \notin NgramsOf(matches) =>
                  /\ AttestedLabels(prev, g) \subseteq LabelsOf(prev)
                  /\ AttestedLabels(prev, g) # LabelsOf(prev)

\* An n-gram is retained and another dropped, in a table with a zero-count
\* row.
C1_Witness ==
    /\ call.op = "reciprocal_remove"
    /\ NgramsOf(matches) # {}
    /\ NgramsOf(matches) # NgramsOf(prev)
    /\ \E i \in DOMAIN prev : prev[i].count = 0

\* C2: reciprocal remove keeps every row of a retained n-gram, its
\* zero-count rows included.
C2_KeptNgramKeepsAllRows ==
    call.op = "reciprocal_remove" =>
        \A i \in DOMAIN prev :
            prev[i].ngram \in NgramsOf(matches) => prev[i] \in Range(matches)

\* C3: after zero fill every (ngram, work) of the table has a row for every
\* siglum the corpus lists for the work.
C3_ZeroFillComplete ==
    (call.op = "zero_fill" /\ ~err) =>
        \A i \in DOMAIN prev : \A s \in GetSigla(prev[i].work) :
            \E j \in DOMAIN matches :
                Key(matches[j]) = <<prev[i].ngram, prev[i].work, s>>

\* C4: zero fill leaves every row of the table as it was, adds only rows of
\* count 0, and adds no row with the (ngram, work, siglum) of a row the
\* table had.
C4_ZeroFillConserves ==
    call.op = "zero_fill" =>
        /\ Len(matches) >= Len(prev)
        /\ \A i \in DOMAIN prev : matches[i] = prev[i]
        /\ \A j \in (Len(prev) + 1)..Len(matches) :
              /\ matches[j].count = 0
              /\ \A i \in DOMAIN prev : Key(prev[i]) # Key(matches[j])

\* Zero fill added a row to a table holding a positive-count row and two
\* rows of one n-gram and work.
C4_Witness ==
    /\ call.op = "zero_fill"
    /\ Len(matches) > Len(prev)
    /\ \E i \in DOMAIN prev : prev[i].count > 0
    /\ \E i, j \in DOMAIN prev :
          i # j /\ prev[i].ngram = prev[j].ngram /\ prev[i].work = prev[j].work

\* C5: no two rows of the table share (ngram, work, siglum), after any
\* sequence of operations on a table loaded with unique keys.
C5_KeysUnique == KeysUnique(matches)

\* The number of places at which the tokens of g occur in the tokens of h.
OccursIn(g, h) ==
    LET tg == Tokenize(g)
        th == Tokenize(h)
    IN Cardinality({k \in 1..Len(th) :
           k + Len(tg) - 1 <= Len(th) /\ SubSeq(th, k, k + Len(tg) - 1) = tg})

\* The count reduce leaves row i of a table with unique keys: its count less
\* the positive reduced count of every larger n-gram of its witness, once
\* per occurrence of the row's n-gram in it.
RECURSIVE ReducedCount(_, _)
ReducedCount(t, i) ==
    LET larger == {j \in DOMAIN t : /\ t[j].work = t[i].work
                                     /\ t[j].siglum = t[i].siglum
                                     /\ t[j].size > t[i].size}
        taken == [j \in larger |->
                    LET c == ReducedCount(t, j)
                    IN IF c > 0 THEN c * OccursIn(t[i].ngram, t[j].ngram) ELSE 0]
    IN t[i].count - SumOver(larger, taken)

\* C6: every row reduce leaves has the (ngram, work, siglum) and the size of
\* a row of the table before, and a count from 1 to that row's count; a row
\* whose reduced count is 0 or less is gone.
C6_ReduceMonotone ==
    call.op = "reduce" =>
        /\ \A j \in DOMAIN matches : \E i \in DOMAIN prev :
              /\ Key(prev[i]) = Key(matches[j])
              /\ prev[i].size = matches[j].size
              /\ 1 <= matches[j].count
              /\ matches[j].count <= prev[i].count
        /\ \A i \in DOMAIN prev :
              ReducedCount(prev, i) <= 0 =>
                  \A j \in DOMAIN matches : Key(matches[j]) # Key(prev[i])

\* Reduce lowered the count of a row it kept and dropped another row.
C6_Witness ==
    /\ call.op = "reduce"
    /\ Len(matches) < Len(prev)
    /\ \E j \in DOMAIN matches : \E i \in DOMAIN prev :
          Key(prev[i]) = Key(matches[j]) /\ matches[j].count < prev[i].count

\* C7: every row extend adds has an n-gram that occurs in the joined token
\* text of its witness and a size above the largest size the table had.
C7_ExtendContained ==
    call.op = "extend" =>
        /\ Len(matches) >= Len(prev)
        /\ \A j \in (Len(prev) + 1)..Len(matches) :
              /\ Contains(GetTokenContent(matches[j].work, matches[j].siglum),
                          matches[j].ngram)
              /\ matches[j].size > MaxSize(prev)

\* Extend added a row.
C7_Witness ==
    /\ call.op = "extend"
    /\ Len(matches) > Len(prev)

ScenarioB_abc == Row(Words(<<"a", "b", "c">>), 3, "W1", "base", "A", 1)

ScenarioB_bcd == Row(Words(<<"b", "c", "d">>), 3, "W1", "base", "A", 1)

ScenarioB_abcd == Row(Words(<<"a", "b", "c", "d">>), 4, "W1", "base", "A", 1)

\* C8: on the table of the trigrams "a b c" and "b c d", count 1 each, of
\* the witness with the text "a b c d", extend adds "a b c d" with size 4
\* and count 1, and reduce then leaves "a b c d" with count 1 alone.
C8_ScenarioB ==
    /\ (call.op = "extend" /\ Len(prev) = 2
            /\ Range(prev) = {ScenarioB_abc, ScenarioB_bcd}) =>
           matches = prev \o <<ScenarioB_abcd>>
    /\ (call.op = "reduce" /\ Len(prev) = 3
            /\ Range(prev) = {ScenarioB_abc, ScenarioB_bcd, ScenarioB_abcd}) =>
           matches = <<ScenarioB_abcd>>

\* Reduce was applied to the table extend made of the two trigrams.
C8_Witness ==
    /\ call.op = "reduce"
    /\ prev = <<ScenarioB_abc, ScenarioB_bcd, ScenarioB_abcd>>
    /\ matches = <<ScenarioB_abcd>>

RangePrunes == {"prune_by_ngram_count", "prune_by_ngram_count_per_work",
                "prune_by_ngram_size", "prune_by_work_count"}

\* C9: a range prune called with minimum and maximum unset leaves the table
\* with exactly the rows it had.
C9_UnsetBoundsKeepTable ==
    (call.op \in RangePrunes /\ call.minimum = Unset /\ call.maximum = Unset) =>
        SameRows(matches, prev)

\* A count within [minimum, maximum], an unset bound being no bound.
InRange(c, minimum, maximum) ==
    /\ minimum = Unset \/ c >= minimum
    /\ maximum = Unset \/ c <= maximum

\* C10: prune by per-work count keeps the rows of the n-grams that have a
\* row with a count within [minimum, maximum], and no other row.
C10_PerWorkKeepsWholeNgram ==
    call.op = "prune_by_ngram_count_per_work" =>
        matches = SelectSeq(prev, LAMBDA r :
                      \E i \in DOMAIN prev :
                          /\ prev[i].ngram = r.ngram
                          /\ InRange(prev[i].count, call.minimum, call.maximum))

\* C11: collapse witnesses leaves exactly one row for each (work, ngram,
\* count) of the table, with that count, and the row's sigla field is the
\* space-joined list, in sorted order, of the sigla of the rows of the
\* group, a siglum with a space standing in double quotes; the sigla "a"
\* and "b" with count 5 give one row with the sigla "a b" and count 5.
C11_CollapseWitnesses ==
    (call.op = "collapse_witnesses" /\ ~err /\ ~Collapsed(prev)) =>
        /\ \A i \in DOMAIN prev :
              Cardinality({j \in DOMAIN matches :
                  CollapseGroup(matches[j]) = CollapseGroup(prev[i])}) = 1
        /\ \A j \in DOMAIN matches :
              LET idx == {i \in DOMAIN prev :
                             CollapseGroup(prev[i]) = CollapseGroup(matches[j])}
                  Entry(i) == IF Contains(SiglumText(prev[i].siglum), <<" ">>)
                              THEN <<"\"">> \o SiglumText(prev[i].siglum) \o <<"\"">>
                              ELSE SiglumText(prev[i].siglum)
              IN /\ idx # {}
                 /\ \E o \in Orderings(idx) :
                       /\ \A k \in 1..(Len(o) - 1) : ~StrLess(Entry(o[k + 1]), Entry(o[k]))
                       /\ matches[j].sigla = SpaceJoin([k \in DOMAIN o |-> Entry(o[k])])
        /\ prev = ScenarioD =>
              /\ Len(matches) = 1
              /\ matches[1].sigla = <<"a", " ", "b">>
              /\ matches[1].count = 5

\* Two rows of a table were merged into one row that lists a siglum in
\* double quotes, and another row stayed on its own.
C11_Witness ==
    /\ call.op = "collapse_witnesses"
    /\ ~err
    /\ Len(prev) = 3
    /\ Len(matches) = 2
    /\ \E j \in DOMAIN matches : Contains(matches[j].sigla, <<"\"">>)

\* Row r may stand before row s in the order of the claim: size descending,
\* then n-gram, count descending, label, work and siglum ascending.
C12_InOrder(r, s) ==
    \/ r.size > s.size
    \/ /\ r.size = s.size
       /\ \/ StrLess(r.ngram, s.ngram)
          \/ /\ r.ngram = s.ngram
             /\ \/ r.count > s.count
                \/ /\ r.count = s.count
                   /\ <<AtomRank(r.label), AtomRank(r.work), AtomRank(r.siglum)>> \in
                         {x \in (1..7) \X (1..7) \X (1..7) :
                            LET y == <<AtomRank(s.label), AtomRank(s.work),
                                       AtomRank(s.siglum)>>
                            IN \/ x[1] < y[1]
                               \/ x[1] = y[1] /\ x[2] < y[2]
                               \/ x[1] = y[1] /\ x[2] = y[2] /\ x[3] <= y[3]}

\* C12: sort leaves the rows of the table the same, each as often as
\* before, in the order size descending, n-gram, count descending, label,
\* work, siglum; every order of the same rows sorts to the same table, and
\* sorting the sorted table changes nothing.
C12_SortCanonical ==
    call.op = "sort" =>
        /\ SameRows(matches, prev)
        /\ \A i, j \in DOMAIN matches : i < j => C12_InOrder(matches[i], matches[j])
        /\ \A o \in Orderings(DOMAIN prev) :
              SortOf([k \in DOMAIN o |-> prev[o[k]]]) = matches
        /\ SortOf(matches) = matches

\* Sort moved the rows of a table of three rows that differ in size and,
\* within one n-gram, in count.
C12_Witness ==
    /\ call.op = "sort"
    /\ Len(prev) = 3
    /\ matches # prev
    /\ \E i, j \in DOMAIN prev : prev[i].size # prev[j].size
    /\ \E i, j \in DOMAIN prev :
          prev[i].ngram = prev[j].ngram /\ prev[i].count # prev[j].count

\* C13: reciprocal remove applied to the table reciprocal remove left
\* leaves the same rows, whatever the counts of the table it started from.
C13_ReciprocalRemoveIdempotent ==
    call.op = "reciprocal_remove" =>
        /\ ReciprocalRemoveOf(matches) = matches
        /\ Range(ReciprocalRemoveOf(ReciprocalRemoveOf(prev))) =
              Range(ReciprocalRemoveOf(prev))

\* Reciprocal remove dropped a row of a table and kept an n-gram under two
\* labels, the table having a zero-count row.
C13_Witness ==
    /\ call.op = "reciprocal_remove"
    /\ Cardinality(LabelsOf(matches)) = 2
    /\ Len(matches) < Len(prev)
    /\ \E i \in DOMAIN prev : prev[i].count = 0

\* A row of the largest size of the table names a witness the corpus does
\* not contain.
C14_LargestRowsLackWitness(t) ==
    \E i \in DOMAIN t :
        /\ \A j \in DOMAIN t : t[j].size <= t[i].size
        /\ <<t[i].work, t[i].siglum>> \notin Witnesses

\* C14 as stated: extend on a table whose rows of the largest size name a
\* witness the corpus does not contain ends in an error and leaves the
\* table as it was.
C14_ExtendMissingWitnessFails ==
    (call.op = "extend" /\ C14_LargestRowsLackWitness(prev)) =>
        err /\ matches = prev

\* C14, amended: the same for a table whose largest size is above 1; on a
\* table of unigrams extend reads no witness, raises no error and leaves
\* the table as it was.
C14_ExtendMissingWitnessFailsAboveUnigrams ==
    (call.op = "extend" /\ C14_LargestRowsLackWitness(prev)) =>
        /\ matches = prev
        /\ err <=> \E i \in DOMAIN prev : prev[i].size > 1

\* Extend failed on a table in which rows of a witness the corpus has, and
\* that extend lengthens, stand before a row of a witness it lacks.
C14_Witness ==
    /\ call.op = "extend"
    /\ err
    /\ Len(prev) = 3
    /\ <<prev[1].work, prev[1].siglum>> = <<"W1", "base">>
    /\ <<prev[2].work, prev[2].siglum>> = <<"W1", "base">>
    /\ {prev[1].ngram, prev[2].ngram} =
          {Words(<<"a", "b", "c">>), Words(<<"b", "c", "d">>)}
    /\ <<prev[3].work, prev[3].siglum>> = <<"W2", "a">>
    /\ prev[3].size = 3

\* C15: zero fill ends without an error and with every row of the table
\* still in it, also when a label of the catalogue has no row in the table
\* and when a row's (label, work) is not in the catalogue.
C15_ZeroFillToleratesMismatch ==
    call.op = "zero_fill" =>
        /\ ~err
        /\ \A i \in DOMAIN prev : prev[i] \in Range(matches)

\* The rows of one witness.
C16_OfWitness(t, work, siglum) ==
    SelectSeq(t, LAMBDA r : r.work = work /\ r.siglum = siglum)

\* C16: reduce leaves each n-gram of a witness with its count less, for
\* every larger n-gram of the same witness, the larger n-gram's own reduced
\* count when positive, once per occurrence of the n-gram in it; the row
\* stays with that count when it is positive and goes otherwise, and the
\* rows of a witness come out as they do from the witness's rows alone.
C16_ReduceChain ==
    (call.op = "reduce" /\ KeysUnique(prev)) =>
        /\ \A i \in DOMAIN prev :
              LET rows == {j \in DOMAIN matches : Key(matches[j]) = Key(prev[i])}
              IN IF ReducedCount(prev, i) > 0
                 THEN /\ Cardinality(rows) = 1
                      /\ \A j \in rows : matches[j].count = ReducedCount(prev, i)
                 ELSE rows = {}
        /\ \A i \in DOMAIN prev :
              C16_OfWitness(matches, prev[i].work, prev[i].siglum) =
                  ReduceOf(C16_OfWitness(prev, prev[i].work, prev[i].siglum))

\* Reduce left a unigram with a positive count after taking from it two
\* times the trigram's count and the reduced count of the bigram, which is
\* below the bigram's count in the table.
C16_Witness ==
    /\ call.op = "reduce"
    /\ \E i, j, k \in DOMAIN prev : \E m, n \in DOMAIN matches :
          /\ prev[i].size = 3 /\ prev[j].size = 2 /\ prev[k].size = 1
          /\ prev[i].siglum = "base" /\ prev[j].siglum = "base"
          /\ prev[i].count > 0
          /\ Key(matches[m]) = Key(prev[j])
          /\ matches[m].count = prev[j].count - prev[i].count
          /\ Key(matches[n]) = Key(prev[k])
          /\ matches[n].count = prev[k].count - 2 * prev[i].count - matches[m].count

\* Every n-gram of the table has a positive-count row under every label of
\* the table.
C17_Intersect(t) == \A g \in NgramsOf(t) : AttestedLabels(t, g) = LabelsOf(t)

\* C17: when every n-gram of the table is attested under every label of
\* the table before extend, so is every n-gram of the table after extend,
\* the n-grams extend added included.
C17_ExtendKeepsIntersect ==
    (call.op = "extend" /\ ~err /\ C17_Intersect(prev)) => C17_Intersect(matches)

\* The occurrences listed in `aligned` can be laid on `text` one span each,
\* every span reading its n-gram and no two spans sharing a character.
C18_DisjointSpans(text, aligned) ==
    LET starts == {p \in 1..Len(text) :
                      \E k \in DOMAIN aligned : MatchAt(text, aligned[k], p)}
    IN \E f \in [DOMAIN aligned -> starts] :
          /\ \A k \in DOMAIN aligned : MatchAt(text, aligned[k], f[k])
          /\ \A a, b \in DOMAIN aligned :
                a < b => \/ f[a] + Len(aligned[a]) <= f[b]
                         \/ f[b] + Len(aligned[b]) <= f[a]

\* C18: for each witness extend works on, the occurrences of extended
\* n-grams that the alignment counts are listed longest first and lie on
\* pairwise disjoint spans of the witness's text, and every row extend adds
\* for the witness is of an n-gram within a counted occurrence.
C18_ExactOnceAlignment ==
    (call.op = "extend" /\ ~err /\ prev # <<>> /\ MaxSize(prev) > 1) =>
        LET highest_n == MaxSize(prev)
            top == SelectSeq(prev, LAMBDA r : r.size = highest_n)
            Lists(r) == GenerateExtendedNgrams(top, r.work, r.siglum, r.label, highest_n)
        IN /\ \A i \in DOMAIN top : \A aligned \in Lists(top[i]) :
                 /\ \A a, b \in DOMAIN aligned :
                       a < b => Len(Tokenize(aligned[a])) >= Len(Tokenize(aligned[b]))
                 /\ C18_DisjointSpans(GetTokenContent(top[i].work, top[i].siglum),
                                      aligned)
           /\ \A j \in (Len(prev) + 1)..Len(matches) :
                 \E aligned \in Lists(matches[j]) : \E k \in DOMAIN aligned :
                     OccursIn(matches[j].ngram, aligned[k]) > 0

\* Extend worked on the witness with the text "a b c b c d" and the
\* bigrams "a b" and "b c", and added "a b c" for it: "b c" is an extended
\* n-gram with one occurrence left beside the one within "a b c".
C18_Witness ==
    /\ call.op = "extend"
    /\ ~err
    /\ \E i, j \in DOMAIN prev :
          /\ Key(prev[i]) = <<Words(<<"a", "b">>), "W1", "b">>
          /\ Key(prev[j]) = <<Words(<<"b", "c">>), "W1", "b">>
    /\ \E j \in (Len(prev) + 1)..Len(matches) :
          /\ Key(matches[j]) = <<Words(<<"a", "b", "c">>), "W1", "b">>
          /\ matches[j].count = 1

\* The labels of the rows of the n-gram, of any count.
C19_LabelsOfNgram(t, g) == {t[i].label : i \in {j \in DOMAIN t : t[j].ngram = g}}

\* C19: the test extend makes of its table, _is_intersect_results, is false
\* when the table has an n-gram with rows under one label only and true
\* otherwise, in whatever order the rows stand.
C19_IntersectDetection ==
    (call.op = "extend" /\ ~err /\ prev # <<>> /\ MaxSize(prev) > 1) =>
        (IsIntersectResults(prev) <=>
            ~\E g \in NgramsOf(prev) : Cardinality(C19_LabelsOfNgram(prev, g)) = 1)

\* C20: every row of the table has a count of 0 or more, after any
\* sequence of operations on a table loaded with such counts.
C20_CountsNonNegative == \A i \in DOMAIN matches : matches[i].count >= 0

\* Reduce returned from a table in which an n-gram's count went below 0
\* while reduce ran.
C20_Witness ==
    /\ call.op = "reduce"
    /\ KeysUnique(prev)
    /\ \E i \in DOMAIN prev : ReducedCount(prev, i) < 0

====
